---- MODULE Spec2Model ----
(***************************************************************************)
(* The task-graph orchestrator of AgentAI_Langgraph.                       *)
(*                                                                         *)
(* The repository holds two runnable wirings of the same orchestrator:     *)
(*   "main"    src/src/main.py, which runs the nodes of src/src/nodes and  *)
(*             the routers of src/src/edges;                               *)
(*   "genesis" src/src/test_states.py (create_genesis_workflow) with the   *)
(*             simulated nodes defined in that file.                       *)
(* The variable workflow says which one a session runs.  One action is one *)
(* graph node together with the edge that leaves it.                       *)
(*                                                                         *)
(* Free text of the program is modelled as a sequence of words, None as    *)
(* the one-word sequence <<"None">>, and money is counted in cents.         *)
(***************************************************************************)
EXTENDS Integers, Sequences, FiniteSets, TLC

\* ---------------------------------------------------------------- bounds
MaxId == 2            \* ids and dependency ids the Generator may emit: 1..MaxId
MaxPlanLen == 2       \* longest task list the Generator may emit
MaxInvocations == 2   \* invoke() calls per session (the first one and the resumes)

\* ---------------------------------------------------- program constants
base_cost_per_task == 250     \* 2.50, in cents

None == <<"None">>

\* self_validation_status before the worker has set it
Unset == "unset"

\* truth value of a string-or-None field
truthy(x) == x # None /\ x # <<>>

\* ------------------------------------------------------------- requests
ClearRequest == <<"create", "a", "task", "management", "web", "application">>
VagueRequest == <<"build", "something", "for", "my", "team">>
EmptyRequest == <<>>
UserRequests == {ClearRequest, VagueRequest, EmptyRequest}

\* the two interrupt texts: one without and one with the letters "ui"
Interrupts == {<<"add", "dark", "mode">>, <<"new", "ui", "theme">>}

\* words of the model that contain the substring "ui"
WordsWithUi == {"ui", "suite"}

Range(s) == {s[i] : i \in 1..Len(s)}

\* 'ui' in goal.lower()
ui_in_goal(goal) == \E w \in Range(goal) : w \in WordsWithUi

\* ---------------------------------------------------------------- tasks
Task(id, role, goal, status, dependencies) ==
  [id |-> id, role |-> role, goal |-> goal, status |-> status,
   dependencies |-> dependencies, result |-> None,
   generated_test_cases |-> None, self_validation_status |-> Unset]

valid_roles == {"ArchitectWorker", "BackendWorker", "FrontendWorker",
                "TestWorker", "UIWorker", "DevOpsWorker"}

\* what the Generator may put into one task of its answer
RoleNames == <<"ArchitectWorker", "BackendWorker", "FrontendWorker", "TestWorker">>
GeneratedRoles(i) == {RoleNames[i], "NoSuchWorker"}
GeneratedStatuses == {"pending", "completed", "cancelled"}
PartNames == <<"api", "store", "pages", "docs">>
GeneratedGoal(i) == <<"build", PartNames[i]>>
GeneratedTasks ==
  UNION {{[id |-> i, role |-> r, goal |-> GeneratedGoal(i), status |-> s,
           dependencies |-> d] :
            r \in GeneratedRoles(i), s \in GeneratedStatuses, d \in SUBSET (1..MaxId)} :
         i \in 1..MaxId}
GeneratedTaskLists ==
  UNION {[1..n -> GeneratedTasks] : n \in 0..MaxPlanLen}

Ids(tasks) == {tasks[i].id : i \in 1..Len(tasks)}

\* validate_task_plan refusing only the dependencies above the task's own id
validate_task_plan_above(tasks) ==
  \A i \in 1..Len(tasks) :
    /\ tasks[i].id >= 1
    /\ \A j \in 1..(i-1) : tasks[j].id # tasks[i].id
    /\ tasks[i].role \in valid_roles
    /\ \A dep \in tasks[i].dependencies : dep >= 1 /\ dep <= tasks[i].id

\* validate_task_plan: TRUE when it returns True, FALSE when it raises ValueError
validate_task_plan(tasks) ==
  \A i \in 1..Len(tasks) :
    /\ tasks[i].id >= 1
    /\ \A j \in 1..(i-1) : tasks[j].id # tasks[i].id
    /\ tasks[i].role \in valid_roles
    /\ \A dep \in tasks[i].dependencies : dep >= 1 /\ dep < tasks[i].id

create_task_objects(task_data) ==
  [i \in 1..Len(task_data) |->
     Task(task_data[i].id, task_data[i].role, task_data[i].goal,
          task_data[i].status, task_data[i].dependencies)]

\* ---------------------------------------------------------------- worker
\* positions of the pending tasks, in list order
pending_tasks(plan) == {i \in 1..Len(plan) : plan[i].status = "pending"}

completed_task_ids(done) == Ids(done)

deps_met(task, done) == \A dep_id \in task.dependencies : dep_id \in completed_task_ids(done)

\* the first pending task of the list, whatever its dependencies
executable_task_first_pending(plan, done) ==
  LET ready == pending_tasks(plan)
  IN IF ready = {} THEN 0
     ELSE CHOOSE i \in ready : \A j \in ready : i <= j

\* position of the task the worker executes, 0 when there is none
executable_task(plan, done) ==
  LET ready == {i \in pending_tasks(plan) : deps_met(plan[i], done)}
  IN IF ready = {} THEN 0
     ELSE CHOOSE i \in ready : \A j \in ready : i <= j

\* worker.py:70 / tester.py:34, the simulated verdicts
worker_validation_passed == TRUE
tester_validation_passed == TRUE

simulated_result(task) == <<"Completed">> \o task.goal \o <<"for", task.role>>

\* the task after the build and self-validation phases
execute(task) ==
  [task EXCEPT !.result = simulated_result(task),
               !.generated_test_cases = <<"unit", "integration", "performance">>,
               !.self_validation_status =
                  IF worker_validation_passed THEN "Passed" ELSE "Failed",
               !.status = IF worker_validation_passed THEN "completed" ELSE "failed"]

\* --------------------------------------------------------------- routers
\* route_after_manager without its test of the interrupt
route_after_manager_no_replan(interrupt, clarification_needed) ==
  IF clarification_needed THEN "clarify" ELSE "plan"

\* route_after_manager with its first two tests in the other order
route_after_manager_clarify_first(interrupt, clarification_needed) ==
  IF clarification_needed THEN "clarify"
  ELSE IF truthy(interrupt) THEN "replan"
  ELSE "plan"

route_after_manager(interrupt, clarification_needed) ==
  IF truthy(interrupt) THEN "replan"
  ELSE IF clarification_needed THEN "clarify"
  ELSE "plan"

\* route_after_tester comparing with the wrong spelling of the status
route_after_tester_lowercase(report) ==
  LET validation_status == IF "status" \in DOMAIN report THEN report.status ELSE "Failed"
  IN IF validation_status = "passed" THEN "passed" ELSE "failed"

\* report is a record with a status, or a record without one
route_after_tester(report) ==
  LET validation_status == IF "status" \in DOMAIN report THEN report.status ELSE "Failed"
  IN IF validation_status = "Passed" THEN "passed" ELSE "failed"

check_worker_completion(plan) ==
  IF \E i \in 1..Len(plan) : plan[i].status \in {"pending", "in_progress"}
  THEN "continue" ELSE "aggregate"

\* ----------------------------------------------------------------- state
VARIABLES
  workflow,                 \* "main" or "genesis"
  pc,                       \* the node to run next, "END", or "ERROR" (invoke raised)
  user_request, clarified_request, is_clarification_needed,
  clarification_questions, retrieved_context, retrieved_information,
  task_plan, completed_tasks, final_deliverable, validation_report,
  cost_estimate, current_cost, user_interrupt, manager_analysis,
  invocations,              \* invoke() calls made so far
  visited,                  \* the nodes run by the current invoke(), in order
  run_log,                  \* the tasks the worker has executed, in order
  call,                     \* one BaseWorker.execute_task call: its inputs and its task
  context,                  \* the local context of the planning step that has just run
  research,                 \* the state of the langgraph_project workflow
  supersteps                \* the steps its graph has run, counted for recursion_limit

session == <<user_request, clarified_request, is_clarification_needed,
             clarification_questions, retrieved_context, retrieved_information,
             task_plan, completed_tasks, final_deliverable, validation_report,
             cost_estimate, current_cost, user_interrupt, manager_analysis>>

vars == <<workflow, pc, session, invocations, visited, run_log, call, context,
          research, supersteps>>

\* no worker agent is called: worker_node simulates the execution
NoCall == [returned |-> FALSE]

\* the langgraph_project workflow is not running
NoResearch == [messages |-> <<>>]

\* initial_state of main.py:56 and of run_basic_demo / run_hitl_demo
Init ==
  /\ workflow \in {"main", "genesis"}
  /\ pc = "manager"
  /\ user_request \in UserRequests
  /\ clarified_request \in {<<>>, ClearRequest}
  /\ is_clarification_needed = FALSE
  /\ clarification_questions = <<>>
  /\ retrieved_context = <<>>
  /\ retrieved_information = <<>>
  /\ task_plan = <<>>
  /\ completed_tasks = <<>>
  /\ final_deliverable = <<>>
  /\ validation_report = [status |-> ""]
  /\ cost_estimate = 0
  /\ current_cost = 0
  /\ user_interrupt \in {None} \cup Interrupts
  /\ manager_analysis = None
  /\ invocations = 1
  /\ visited = <<>>
  /\ run_log = <<>>
  /\ call = NoCall
  /\ context = None
  /\ research = NoResearch /\ supersteps = 0

Enter(node) == visited' = Append(visited, node)

\* -------------------------------------------------------------- manager
ManagerResponses ==
  {<<"Clarification", "needed", "which", "database">>,
   <<"web", "app", "with", "login">>,
   <<>>}

\* "Clarification needed" in response
clarification_in(response) ==
  \E i \in 1..(Len(response) - 1) :
     response[i] = "Clarification" /\ response[i+1] = "needed"

ManagerTarget(interrupt, clarification_needed) ==
  LET route == route_after_manager(interrupt, clarification_needed)
  IN IF route = "clarify" THEN "END"
     ELSE IF route = "plan" THEN "retriever"
     ELSE "manager_planning"

\* nodes/manager.py: the Generator decides; nothing catches its failure
MainManager ==
  /\ workflow = "main" /\ pc = "manager"
  /\ Enter("manager")
  /\ \/ \E response \in ManagerResponses :
          /\ IF clarification_in(response)
             THEN /\ is_clarification_needed' = TRUE
                  /\ clarification_questions' = <<response>>
                  /\ UNCHANGED clarified_request
             ELSE /\ is_clarification_needed' = FALSE
                  /\ clarified_request' = response
                  /\ UNCHANGED clarification_questions
          /\ pc' = ManagerTarget(user_interrupt, is_clarification_needed')
     \/ /\ pc' = "ERROR"
        /\ UNCHANGED <<is_clarification_needed, clarification_questions, clarified_request>>
  /\ UNCHANGED <<call, context, research, supersteps>>
  /\ UNCHANGED <<workflow, user_request, retrieved_context, retrieved_information,
                 task_plan, completed_tasks, final_deliverable, validation_report,
                 cost_estimate, current_cost, user_interrupt, manager_analysis,
                 invocations, run_log>>

VagueWords == {"maybe", "something", "anything"}

needs_clarification(request) ==
  Len(request) < 5 \/ \E w \in Range(request) : w \in VagueWords

GenesisQuestions == <<<<"functionality">>, <<"target", "user">>, <<"technologies">>>>

\* test_states.py manager_node
GenesisManager ==
  /\ workflow = "genesis" /\ pc = "manager"
  /\ Enter("manager")
  /\ IF truthy(user_interrupt)
     THEN /\ manager_analysis' = <<"Analyzing", "impact", "of">> \o user_interrupt
          /\ is_clarification_needed' = FALSE
          /\ UNCHANGED <<clarification_questions, clarified_request>>
     ELSE /\ UNCHANGED manager_analysis
          /\ IF ~truthy(clarified_request)
             THEN IF needs_clarification(user_request)
                  THEN /\ is_clarification_needed' = TRUE
                       /\ clarification_questions' = GenesisQuestions
                       /\ UNCHANGED clarified_request
                  ELSE /\ is_clarification_needed' = FALSE
                       /\ clarified_request' = user_request
                       /\ UNCHANGED clarification_questions
             ELSE UNCHANGED <<is_clarification_needed, clarification_questions,
                              clarified_request>>
  /\ pc' = ManagerTarget(user_interrupt, is_clarification_needed')
  /\ UNCHANGED <<call, context, research, supersteps>>
  /\ UNCHANGED <<workflow, user_request, retrieved_context, retrieved_information,
                 task_plan, completed_tasks, final_deliverable, validation_report,
                 cost_estimate, current_cost, user_interrupt, invocations, run_log>>

\* ------------------------------------------------------------ retriever
RetrievedItems == <<<<"snippet">>, <<"pattern">>>>

NoQueryItem == <<"No", "query", "available">>
NoContextItem == <<"No", "relevant", "context", "found">>
RetrievalErrorItem == <<"Error", "occurred", "during", "retrieval">>

RetrieverOutcomes == {"items", "empty", "raise"}

\* a retriever that stores the empty list the search returned
retrieved_or_empty(query, outcome) ==
  IF query = <<>> THEN <<NoQueryItem>>
  ELSE CASE outcome = "items" -> RetrievedItems
         [] outcome = "empty" -> <<>>
         [] outcome = "raise" -> <<RetrievalErrorItem>>

\* what retriever_node stores: outcome is what the vector store and the search
\* do, "items", "empty" (an empty list) or "raise"
retrieved(query, outcome) ==
  IF query = <<>> THEN <<NoQueryItem>>
  ELSE CASE outcome = "items" -> RetrievedItems
         [] outcome = "empty" -> <<NoContextItem>>
         [] outcome = "raise" -> <<RetrievalErrorItem>>

\* the query of retriever_node: clarified_request, else user_request
retriever_query == IF truthy(clarified_request) THEN clarified_request ELSE user_request

\* retriever_node keeping the query it fell back to as clarified_request
MainRetriever_stores_query ==
  /\ workflow = "main" /\ pc = "retriever"
  /\ Enter("retriever")
  /\ \E outcome \in RetrieverOutcomes :
        retrieved_information' = retrieved(retriever_query, outcome)
  /\ clarified_request' = retriever_query
  /\ pc' = "manager_planning"
  /\ UNCHANGED <<call, context, research, supersteps>>
  /\ UNCHANGED <<workflow, user_request, is_clarification_needed,
                 clarification_questions, retrieved_context, task_plan,
                 completed_tasks, final_deliverable, validation_report, cost_estimate,
                 current_cost, user_interrupt, manager_analysis, invocations, run_log>>

\* nodes/retriever.py
MainRetriever ==
  /\ workflow = "main" /\ pc = "retriever"
  /\ Enter("retriever")
  /\ \E outcome \in RetrieverOutcomes :
        retrieved_information' = retrieved(retriever_query, outcome)
  /\ pc' = "manager_planning"
  /\ UNCHANGED <<call, context, research, supersteps>>
  /\ UNCHANGED <<workflow, user_request, clarified_request, is_clarification_needed,
                 clarification_questions, retrieved_context, task_plan,
                 completed_tasks, final_deliverable, validation_report, cost_estimate,
                 current_cost, user_interrupt, manager_analysis, invocations, run_log>>

\* test_states.py retriever_node
GenesisRetriever ==
  /\ workflow = "genesis" /\ pc = "retriever"
  /\ Enter("retriever")
  /\ retrieved_context' = <<<<"Similar", "project">> \o clarified_request,
                            <<"Code", "snippet">>, <<"Best", "practice">>,
                            <<"Template">>>>
  /\ pc' = "manager_planning"
  /\ UNCHANGED <<call, context, research, supersteps>>
  /\ UNCHANGED <<workflow, user_request, clarified_request, is_clarification_needed,
                 clarification_questions, retrieved_information, task_plan,
                 completed_tasks, final_deliverable, validation_report, cost_estimate,
                 current_cost, user_interrupt, manager_analysis, invocations, run_log>>

\* ------------------------------------------------------------- planning
\* the answers validate_task_plan lets through, and those it raises on
AcceptedTaskLists == {tasks \in GeneratedTaskLists : validate_task_plan(tasks)}
RejectedTaskLists == GeneratedTaskLists \ AcceptedTaskLists

\* the ways into the except branch: the Generator call raises, its answer is
\* no JSON object with "tasks", or validate_task_plan raises on the answer
GenerationFailures ==
  {"raise", "unparsable"} \cup (IF RejectedTaskLists # {} THEN {"invalid"} ELSE {})

\* "\n".join(items)
RECURSIVE join(_)
join(items) ==
  IF items = <<>> THEN <<>>
  ELSE IF Len(items) = 1 THEN items[1]
  ELSE items[1] \o <<"\n">> \o join(Tail(items))

NoAdditionalContext == <<"No", "additional", "context", "available.">>

\* "\n".join(state.get('retrieved_context', [...])).  main.py hands the key to
\* invoke() with an empty list, but it is no field of AgentState (state.py), so
\* the graph may or may not pass it on to the node: the node joins either the
\* stored list or the default of get
planning_context(stored_context) ==
  {join(stored_context), join(<<NoAdditionalContext>>)}

\* nodes/manager_planning.py manager_planning_node
MainPlanning ==
  /\ workflow = "main" /\ pc = "manager_planning"
  /\ Enter("manager_planning")
  /\ \/ \E tasks \in AcceptedTaskLists :
          /\ task_plan' = create_task_objects(tasks)
          /\ user_interrupt' = IF truthy(user_interrupt) THEN None ELSE user_interrupt
     \/ \E failure \in GenerationFailures :
          /\ task_plan' = <<>>
          /\ UNCHANGED user_interrupt
  /\ context' \in planning_context(retrieved_context)
  /\ pc' = "resource_monitor"
  /\ UNCHANGED <<call, research, supersteps>>
  /\ UNCHANGED <<workflow, user_request, clarified_request, is_clarification_needed,
                 clarification_questions, retrieved_context, retrieved_information,
                 completed_tasks, final_deliverable, validation_report, cost_estimate,
                 current_cost, manager_analysis, invocations, run_log>>

sample_tasks ==
  << Task(1, "ArchitectWorker", <<"design", "architecture">>, "pending", {}),
     Task(2, "BackendWorker", <<"implement", "api">>, "pending", {1}),
     Task(3, "FrontendWorker", <<"create", "user", "interface">>, "pending", {1}),
     Task(4, "TestWorker", <<"implement", "test", "suite">>, "pending", {2, 3}) >>

\* the cancelling loop without its test of the status
cancel_ui_tasks_any_status(plan) ==
  [i \in 1..Len(plan) |->
     IF ui_in_goal(plan[i].goal)
     THEN [plan[i] EXCEPT !.status = "cancelled"]
     ELSE plan[i]]

\* the cancelling loop of the replanning branch
cancel_ui_tasks(plan) ==
  [i \in 1..Len(plan) |->
     IF plan[i].status = "pending" /\ ui_in_goal(plan[i].goal)
     THEN [plan[i] EXCEPT !.status = "cancelled"]
     ELSE plan[i]]

new_task(plan, interrupt) ==
  Task(Len(plan) + 1, "UIWorker",
       <<"Implement", "feature", "requested", "in", "interrupt">> \o interrupt,
       "pending", {})

\* test_states.py manager_planning_node
GenesisPlanning ==
  /\ workflow = "genesis" /\ pc = "manager_planning"
  /\ Enter("manager_planning")
  /\ IF truthy(user_interrupt)
     THEN /\ task_plan' = Append(cancel_ui_tasks(task_plan),
                                 new_task(task_plan, user_interrupt))
          /\ user_interrupt' = None
     ELSE /\ task_plan' = sample_tasks
          /\ UNCHANGED user_interrupt
  /\ pc' = "resource_monitor"
  /\ UNCHANGED <<call, context, research, supersteps>>
  /\ UNCHANGED <<workflow, user_request, clarified_request, is_clarification_needed,
                 clarification_questions, retrieved_context, retrieved_information,
                 completed_tasks, final_deliverable, validation_report, cost_estimate,
                 current_cost, manager_analysis, invocations, run_log>>

\* ----------------------------------------------------- resource monitor
\* the estimate made over every task of the plan, the cancelled ones included
active_tasks_all(plan) == 1..Len(plan)

active_tasks(plan) == {i \in 1..Len(plan) : plan[i].status # "cancelled"}

estimated_cost(plan) == Cardinality(active_tasks(plan)) * base_cost_per_task

\* resource_monitor_node, the same code in both workflows; the locals of
\* the planning step before it are gone
ResourceMonitor ==
  /\ pc = "resource_monitor"
  /\ Enter("resource_monitor")
  /\ cost_estimate' = estimated_cost(task_plan)
  /\ pc' = "worker"
  /\ context' = None
  /\ UNCHANGED <<call, research, supersteps>>
  /\ UNCHANGED <<workflow, user_request, clarified_request, is_clarification_needed,
                 clarification_questions, retrieved_context, retrieved_information,
                 task_plan, completed_tasks, final_deliverable, validation_report,
                 current_cost, user_interrupt, manager_analysis, invocations, run_log>>

\* --------------------------------------------------------------- worker
\* the worker followed by check_worker_completion in main.py as well
WorkerTarget_loops(wf, plan) ==
  IF check_worker_completion(plan) = "continue" THEN "worker" ELSE "aggregator"

\* main.py:43 goes to the aggregator after every worker step;
\* test_states.py:471 asks check_worker_completion
WorkerTarget(wf, plan) ==
  IF wf = "main" THEN "aggregator"
  ELSE IF check_worker_completion(plan) = "continue" THEN "worker"
  ELSE "aggregator"

\* a worker that executes every task that is ready, not only the first
Worker_runs_all_ready ==
  /\ pc = "worker"
  /\ Enter("worker")
  /\ LET ready == {i \in pending_tasks(task_plan) : deps_met(task_plan[i], completed_tasks)}
         executed(t) == \E i \in ready : t = execute(task_plan[i])
         started(t) == \E i \in ready : t = task_plan[i]
     IN /\ task_plan' = [i \in 1..Len(task_plan) |->
                           IF i \in ready THEN execute(task_plan[i]) ELSE task_plan[i]]
        /\ completed_tasks' = completed_tasks \o SelectSeq(task_plan', executed)
        /\ current_cost' = current_cost + Cardinality(ready) * 250
        /\ run_log' = run_log \o SelectSeq(task_plan, started)
  /\ pc' = IF workflow = "main" THEN "aggregator"
           ELSE IF check_worker_completion(task_plan') = "continue" THEN "worker"
           ELSE "aggregator"
  /\ UNCHANGED <<call, context, research, supersteps>>
  /\ UNCHANGED <<workflow, user_request, clarified_request, is_clarification_needed,
                 clarification_questions, retrieved_context, retrieved_information,
                 final_deliverable, validation_report, cost_estimate,
                 user_interrupt, manager_analysis, invocations>>

\* worker.py:83, the price of one executed task, in cents
task_cost == 250

\* a worker that books nothing for the task it executed
spend_nothing(cost) == cost

spend(cost) == cost + task_cost

\* worker_node, the same code in both workflows
Worker ==
  /\ pc = "worker"
  /\ Enter("worker")
  /\ LET k == executable_task(task_plan, completed_tasks)
     IN IF k = 0
        THEN UNCHANGED <<task_plan, completed_tasks, current_cost, run_log>>
        ELSE LET done == execute(task_plan[k])
             IN /\ task_plan' = [task_plan EXCEPT ![k] = done]
                /\ completed_tasks' = IF done.status = "completed"
                                      THEN Append(completed_tasks, done)
                                      ELSE completed_tasks
                /\ current_cost' = spend(current_cost)
                /\ run_log' = Append(run_log, task_plan[k])
  /\ pc' = WorkerTarget(workflow, task_plan')
  /\ UNCHANGED <<call, context, research, supersteps>>
  /\ UNCHANGED <<workflow, user_request, clarified_request, is_clarification_needed,
                 clarification_questions, retrieved_context, retrieved_information,
                 final_deliverable, validation_report, cost_estimate,
                 user_interrupt, manager_analysis, invocations>>

\* ----------------------------------------------------------- aggregator
\* a deliverable is a tuple of parts; this one has the message as its only part
NoWork == << <<"No", "work", "completed", "yet">> >>

deliverable_parts(done) == [i \in 1..Len(done) |-> <<done[i].role>> \o done[i].result]

\* an aggregator without the early return for an empty completed_tasks
deliverable_without_placeholder(done, request, cost) ==
  <<request, deliverable_parts(done), Len(done), cost>>

\* the text aggregator_node writes: the placeholder, or the request, the
\* component lines, their number and the cost
deliverable(done, request, cost) ==
  IF Len(done) = 0 THEN NoWork
  ELSE <<request, deliverable_parts(done), Len(done), cost>>

\* main.py gives the aggregator no outgoing edge; test_states.py:480 goes to the tester
AggregatorTarget(wf) == IF wf = "main" THEN "END" ELSE "tester"

\* aggregator_node, the same code in both workflows
Aggregator ==
  /\ pc = "aggregator"
  /\ Enter("aggregator")
  /\ final_deliverable' = deliverable(completed_tasks, clarified_request, current_cost)
  /\ pc' = AggregatorTarget(workflow)
  /\ UNCHANGED <<call, context, research, supersteps>>
  /\ UNCHANGED <<workflow, user_request, clarified_request, is_clarification_needed,
                 clarification_questions, retrieved_context, retrieved_information,
                 task_plan, completed_tasks, validation_report, cost_estimate,
                 current_cost, user_interrupt, manager_analysis, invocations, run_log>>

\* --------------------------------------------------------------- tester
TesterTarget(report) ==
  IF route_after_tester(report) = "passed" THEN "END" ELSE "manager_planning"

\* tester / tester_node, the same code in both workflows
Tester ==
  /\ pc = "tester"
  /\ Enter("tester")
  /\ validation_report' =
       [status |-> IF tester_validation_passed THEN "Passed" ELSE "Failed"]
  /\ pc' = TesterTarget(validation_report')
  /\ UNCHANGED <<call, context, research, supersteps>>
  /\ UNCHANGED <<workflow, user_request, clarified_request, is_clarification_needed,
                 clarification_questions, retrieved_context, retrieved_information,
                 task_plan, completed_tasks, final_deliverable, cost_estimate,
                 current_cost, user_interrupt, manager_analysis, invocations, run_log>>

\* ------------------------------------------------------------- resuming
\* The stored state of a session that reached END is handed to invoke() again
\* with a HITL interrupt set (as run_hitl_demo does for a new session).
ResumeWithInterrupt ==
  /\ pc = "END" /\ invocations < MaxInvocations
  /\ \E text \in Interrupts : user_interrupt' = text
  /\ pc' = "manager"
  /\ invocations' = invocations + 1
  /\ visited' = <<>>
  /\ UNCHANGED <<call, context, research, supersteps>>
  /\ UNCHANGED <<workflow, user_request, clarified_request, is_clarification_needed,
                 clarification_questions, retrieved_context, retrieved_information,
                 task_plan, completed_tasks, final_deliverable, validation_report,
                 cost_estimate, current_cost, manager_analysis, run_log>>

\* A session paused for clarification is handed to invoke() again with the
\* human's answer as clarified_request.
ResumeWithAnswer ==
  /\ pc = "END" /\ invocations < MaxInvocations
  /\ is_clarification_needed
  /\ clarified_request' = ClearRequest
  /\ pc' = "manager"
  /\ invocations' = invocations + 1
  /\ visited' = <<>>
  /\ UNCHANGED <<call, context, research, supersteps>>
  /\ UNCHANGED <<workflow, user_request, is_clarification_needed,
                 clarification_questions, retrieved_context, retrieved_information,
                 task_plan, completed_tasks, final_deliverable, validation_report,
                 cost_estimate, current_cost, user_interrupt, manager_analysis, run_log>>

Next ==
  \/ MainManager
  \/ GenesisManager
  \/ MainRetriever
  \/ GenesisRetriever
  \/ MainPlanning
  \/ GenesisPlanning
  \/ ResourceMonitor
  \/ Worker
  \/ Aggregator
  \/ Tester
  \/ ResumeWithInterrupt
  \/ ResumeWithAnswer

Spec == Init /\ [][Next]_vars

\* the sessions of create_genesis_workflow alone
InitGenesis == Init /\ workflow = "genesis"

NextGenesis ==
  \/ GenesisManager
  \/ GenesisRetriever
  \/ GenesisPlanning
  \/ ResourceMonitor
  \/ Worker
  \/ Aggregator
  \/ Tester
  \/ ResumeWithInterrupt
  \/ ResumeWithAnswer

SpecGenesis == InitGenesis /\ [][NextGenesis]_vars

\* the steps invoke() makes by itself: once a node has returned, the graph runs
\* the node its edge names, until END or until a node raises
NodeStep ==
  \/ MainManager
  \/ GenesisManager
  \/ MainRetriever
  \/ GenesisRetriever
  \/ MainPlanning
  \/ GenesisPlanning
  \/ ResourceMonitor
  \/ Worker
  \/ Aggregator
  \/ Tester

\* the sessions in which invoke() is not stopped from outside
SpecInvoke == Init /\ [][Next]_vars /\ WF_vars(NodeStep)

\* -------------------------------------------------------- worker agents
\* nodes/worker_agents/base_worker.py.  The inputs of one execute_task call:
\*   build  what self.build does: "built" returns a result, "error" returns a
\*          result with a populated error field (architect_worker.py:153-170),
\*          "raise" raises
\*   tests  the list generate_tests returns, <<>> when the Generator failed or
\*          its answer could not be parsed (base_worker.py:114-120); one kind
\*          per test case
\*   env    whether pytest could be run
MaxTests == 2

BuildOutcomes == {"built", "error", "raise"}

\* "pass"/"fail": a test pytest reports as PASSED/FAILED; "unnamed": a test case
\* without the key 'name'; "uncollected": a test pytest does not report at all
TestKinds == {"pass", "fail", "unnamed", "uncollected"}
TestLists == UNION {[1..n -> TestKinds] : n \in 0..MaxTests}
TestEnvs == {"ran", "error"}

build_result(build) ==
  IF build = "built" THEN <<"Built", "component">>
  ELSE <<"Error", "in", "build", "phase">>

\* execute_tests: the passed flags of the TestResults it returns
execute_tests(tests, env) ==
  IF \E i \in 1..Len(tests) : tests[i] = "unnamed" THEN <<FALSE>>
  ELSE IF env = "error" THEN <<FALSE>>
  ELSE LET reported == {i \in 1..Len(tests) : tests[i] \in {"pass", "fail"}}
           passed == \E i \in reported : tests[i] = "pass"
       IN [i \in 1..Cardinality(reported) |-> passed]

\* whether the try block of execute_task raises
raises(build, tests) ==
  build = "raise" \/ \E i \in 1..Len(tests) : tests[i] = "unnamed"

\* execute_task whose except branch leaves self_validation_status alone
execute_task_unvalidated(task, build, tests, env) ==
  IF raises(build, tests)
  THEN [task EXCEPT !.status = "failed",
                    !.result = <<"Error", ":", "exception">>]
  ELSE LET test_results == execute_tests(tests, env)
           all_passed == \A i \in 1..Len(test_results) : test_results[i]
       IN [task EXCEPT !.result = build_result(build),
                       !.generated_test_cases = tests,
                       !.self_validation_status = IF all_passed THEN "Passed" ELSE "Failed",
                       !.status = IF all_passed THEN "completed" ELSE "failed"]

\* BaseWorker.execute_task: the task it returns
execute_task(task, build, tests, env) ==
  IF raises(build, tests)
  THEN [task EXCEPT !.status = "failed",
                    !.self_validation_status = "Failed",
                    !.result = <<"Error", ":", "exception">>]
  ELSE LET test_results == execute_tests(tests, env)
           all_passed == \A i \in 1..Len(test_results) : test_results[i]
       IN [task EXCEPT !.result = build_result(build),
                       !.generated_test_cases = tests,
                       !.self_validation_status = IF all_passed THEN "Passed" ELSE "Failed",
                       !.status = IF all_passed THEN "completed" ELSE "failed"]

\* the roles of the worker agents that exist: ArchitectWorker, DatabaseWorker
\* and FrontendWorker
registered_roles == {"ArchitectWorker", "DatabaseWorker", "FrontendWorker"}

\* the session fields of a state in which only a worker agent acts
NoSession ==
  /\ user_request = ClearRequest /\ clarified_request = ClearRequest
  /\ is_clarification_needed = FALSE /\ clarification_questions = <<>>
  /\ retrieved_context = <<>> /\ retrieved_information = <<>>
  /\ final_deliverable = <<>> /\ validation_report = [status |-> ""]
  /\ cost_estimate = 0 /\ current_cost = 0
  /\ user_interrupt = None /\ manager_analysis = None
  /\ invocations = 1 /\ visited = <<>> /\ run_log = <<>>
  /\ context = None

\* a worker agent is handed a task that has not been executed
InitExecuteTask ==
  /\ workflow = "worker_agent" /\ pc = "execute_task"
  /\ NoSession
  /\ task_plan = <<>> /\ completed_tasks = <<>>
  /\ research = NoResearch /\ supersteps = 0
  /\ \E id \in 1..MaxId, status \in {"pending", "in_progress"},
        build \in BuildOutcomes, tests \in TestLists, env \in TestEnvs :
        call = [task |-> Task(id, "ArchitectWorker", GeneratedGoal(id), status, {}),
                build |-> build, tests |-> tests, env |-> env, returned |-> FALSE]

ExecuteTask ==
  /\ pc = "execute_task"
  /\ call' = [call EXCEPT
               !.task = execute_task(call.task, call.build, call.tests, call.env),
               !.returned = TRUE]
  /\ pc' = "returned"
  /\ UNCHANGED <<workflow, session, invocations, visited, run_log, context, research, supersteps>>

NextExecuteTask == ExecuteTask

SpecExecuteTask == InitExecuteTask /\ [][NextExecuteTask]_vars

\* ------------------------------------- worker agents: build and validate
\* nodes/worker_agents/{architect,database,frontend}_worker.py.  A Python value
\* is a record that carries its type.
Absent == [type |-> "absent"]        \* the value of a key that a dict lacks
PyNone == [type |-> "null"]
PyInt == [type |-> "int"]            \* a number other than 0
NotJson == [type |-> "not_json"]

\* a string: chars stands for its characters and json for what json.loads
\* makes of it, NotJson when json.loads raises JSONDecodeError
Str(chars, json) == [type |-> "str", chars |-> chars, json |-> json]
Text == Str("text", NotJson)
List(items) == [type |-> "list", items |-> items]
Dict(f) ==
  [type |-> "dict", fields |-> [k \in {k \in DOMAIN f : f[k] # Absent} |-> f[k]]]
EmptyDict == Dict(<<>>)

\* key in v, for a str key: membership for a dict; no element of the lists and
\* no substring of the strings below equals a key
has_key(v, key) == v.type = "dict" /\ key \in DOMAIN v.fields
\* key in v raises TypeError
in_raises(v) == v.type \in {"null", "int"}
\* v[key] raises KeyError or TypeError
subscript_raises(v, key) == ~has_key(v, key)
\* v.get(key, default) of a dict
get(v, key, default) == IF has_key(v, key) THEN v.fields[key] ELSE default
\* not v
falsy(v) ==
  \/ v.type = "null"
  \/ v.type = "str" /\ v.chars = ""
  \/ v.type = "list" /\ Len(v.items) = 0
  \/ v.type = "dict" /\ DOMAIN v.fields = {}
\* len(v) raises TypeError
len_raises(v) == v.type \in {"null", "int"}
\* v.strip() of a string
strip(v) == [v EXCEPT !.chars = IF @ = " " THEN "" ELSE @]
\* json.dumps(v)
dumps(v) == Str("text", v)

\* ---- what the Generator may answer
\* no fence, the fence that names json, the bare fence
Fences == {"none", "json_fence", "bare_fence"}

\* response.content: a string inside an optional markdown fence
Content(fence, body) ==
  [type |-> "str", chars |-> body.chars, json |-> body.json, fence |-> fence]

_extract_json_from_llm_response(content) == Str(content.chars, content.json)

DesignParts == {Absent, List(<<>>), List(<<Text>>), PyInt}
ArchitectureDesigns ==
  {Absent, PyNone} \cup
  {Dict([components |-> c, api_interfaces |-> a]) : c \in DesignParts, a \in DesignParts}
ArchitectAnswers == {Dict([architecture_design |-> d]) : d \in ArchitectureDesigns}

Questions == {Absent, List(<<>>), List(<<Text>>)}
Scripts == {Absent, Str("", NotJson), Str(" ", NotJson), Text, PyInt}
DatabaseAnswers ==
  {Dict([clarification_questions |-> q, schema_ts |-> s, migration_ts |-> m,
         seed_data |-> d]) :
     q \in Questions, s \in Scripts, m \in Scripts, d \in {Absent, Text}}

PlainFile == Dict([filename |-> Str("App.js", NotJson)])
TestFile == Dict([filename |-> Str("App.test.js", NotJson)])
FileLists == {Absent, List(<<>>), List(<<PlainFile>>), List(<<TestFile>>),
              List(<<TestFile, PyInt>>), List(<<PyInt>>), Text, PyInt}
NameLists == {Absent, List(<<>>), List(<<Text>>), Text}
FrontendAnswers ==
  {Dict([clarification_questions |-> q, files |-> f, folder_structure |-> s,
         dependencies |-> d]) :
     q \in Questions, f \in FileLists, s \in NameLists, d \in NameLists}

\* JSON that is no object
OtherAnswers == {PyNone, PyInt, List(<<>>), Text}

Answers(worker) ==
  OtherAnswers \cup
  (CASE worker = "ArchitectWorker" -> ArchitectAnswers
     [] worker = "DatabaseWorker" -> DatabaseAnswers
     [] worker = "FrontendWorker" -> FrontendAnswers)

\* llm.invoke raises, or returns a message
LlmRaises == [type |-> "raise"]
Message(content) == [type |-> "message", content |-> content]
Responses(worker) ==
  {LlmRaises} \cup
  {Message(Content(fence, body)) :
     fence \in Fences,
     body \in {dumps(answer) : answer \in Answers(worker)}
                \cup {Text, Str("", NotJson)}}

\* ---- build
\* the record of the two except branches
BuildError(raw_response) ==
  Dict([result |-> Text, error |-> Text,
        artifacts |-> Dict([error_details |-> Text, raw_response |-> raw_response])])

\* the record for a required key that the answer lacks
KeyMissing(raw_response) ==
  Dict([result |-> Text, error |-> Text,
        artifacts |-> Dict([raw_response |-> raw_response])])

\* the record for an answer that asks questions
ClarificationAsked(questions) ==
  Dict([result |-> PyNone, clarification_questions |-> questions,
        artifacts |-> EmptyDict])

\* ArchitectWorker.build
architect_build(response) ==
  IF response.type = "raise" THEN BuildError(Text)
  ELSE
    LET json_str == _extract_json_from_llm_response(response.content)
        design_result == json_str.json
    IN IF design_result = NotJson THEN BuildError(json_str)
       ELSE IF ~has_key(design_result, "architecture_design")
       THEN BuildError(response.content)
       ELSE
         LET design == design_result.fields["architecture_design"]
         IN IF subscript_raises(design, "components")
               \/ subscript_raises(design, "api_interfaces")
            THEN BuildError(response.content)
            ELSE Dict([result |-> dumps(design_result),
                       artifacts |-> Dict(
                         [architecture_doc |-> design_result,
                          diagrams |-> get(design_result, "diagrams", EmptyDict),
                          components |-> design.fields["components"],
                          api_interfaces |-> design.fields["api_interfaces"]])])

required_keys(worker) ==
  IF worker = "DatabaseWorker" THEN <<"schema_ts", "migration_ts", "seed_data">>
  ELSE <<"files", "folder_structure", "dependencies">>

\* the artifacts of a build that has every required key
built_artifacts(worker, answer) ==
  IF worker = "DatabaseWorker"
  THEN Dict([schema_ts |-> answer.fields["schema_ts"],
             migration_ts |-> answer.fields["migration_ts"],
             seed_data |-> answer.fields["seed_data"],
             indexes |-> get(answer, "indexes", List(<<>>)),
             validation_notes |-> get(answer, "validation_notes", Str("", NotJson))])
  ELSE Dict([files |-> answer.fields["files"],
             folder_structure |-> answer.fields["folder_structure"],
             dependencies |-> answer.fields["dependencies"],
             readme |-> get(answer, "readme", Str("", NotJson))])

\* DatabaseWorker.build and FrontendWorker.build: the same code but for the
\* keys and for what is kept as raw_response
keyed_build(worker, response) ==
  IF response.type = "raise"
  THEN BuildError(IF worker = "DatabaseWorker" THEN Text ELSE PyNone)
  ELSE
    LET json_str == _extract_json_from_llm_response(response.content)
        answer == json_str.json
        raw_response == IF worker = "DatabaseWorker" THEN json_str ELSE response.content
        keys == required_keys(worker)
    IN IF answer = NotJson THEN BuildError(raw_response)
       ELSE IF in_raises(answer) THEN BuildError(response.content)
       ELSE IF has_key(answer, "clarification_questions")
               /\ ~falsy(answer.fields["clarification_questions"])
       THEN ClarificationAsked(answer.fields["clarification_questions"])
       ELSE IF \E i \in 1..Len(keys) : ~has_key(answer, keys[i])
       THEN KeyMissing(raw_response)
       ELSE Dict([result |-> answer.fields[keys[1]],
                  artifacts |-> built_artifacts(worker, answer)])

build(worker, response) ==
  IF worker = "ArchitectWorker" THEN architect_build(response)
  ELSE keyed_build(worker, response)

\* ---- validate
Check(criterion, passed) ==
  [criterion |-> criterion, status |-> IF passed THEN "passed" ELSE "failed"]

\* Passed as soon as one check passed
overall_status_any(checks) ==
  IF \E i \in 1..Len(checks) : checks[i].status = "passed" THEN "Passed" ELSE "Failed"

\* 'Passed' if all(r['status'] == 'passed' ...) else 'Failed'
overall_status(checks) ==
  IF \A i \in 1..Len(checks) : checks[i].status = "passed" THEN "Passed" ELSE "Failed"

Validation(checks) ==
  [status |-> overall_status(checks), checks |-> checks,
   error |-> IF overall_status(checks) = "Passed" THEN PyNone ELSE Text]

\* the record of the except branch
ValidationError == [status |-> "Failed", checks |-> <<>>, error |-> Text]

\* ArchitectWorker.validate
architect_validate(result) ==
  IF subscript_raises(result, "result") THEN ValidationError
  ELSE
    LET text == result.fields["result"]
    IN IF text.type = "str" /\ text.json = NotJson THEN ValidationError
       ELSE
         LET design == IF text.type = "str" THEN text.json ELSE text
         IN IF subscript_raises(design, "architecture_design") THEN ValidationError
            ELSE
              LET architecture == design.fields["architecture_design"]
              IN IF subscript_raises(architecture, "components")
                    \/ subscript_raises(architecture, "api_interfaces")
                 THEN ValidationError
                 ELSE
                   LET components == architecture.fields["components"]
                       api_interfaces == architecture.fields["api_interfaces"]
                   IN IF \/ ~falsy(components) /\ len_raises(components)
                         \/ ~falsy(api_interfaces) /\ len_raises(api_interfaces)
                      THEN ValidationError
                      ELSE Validation(<<Check("components", ~falsy(components)),
                                        Check("api_interfaces", ~falsy(api_interfaces))>>)

TestNames == {"App.test.js"}

\* any('test' in f['filename'].lower() for f in files if 'filename' in f) over
\* the items of a list: "true", "false", or "raise"
RECURSIVE any_test_file(_)
any_test_file(items) ==
  IF items = <<>> THEN "false"
  ELSE LET f == Head(items)
       IN IF in_raises(f) THEN "raise"
          ELSE IF ~has_key(f, "filename") THEN any_test_file(Tail(items))
          ELSE IF f.fields["filename"].type # "str" THEN "raise"
          ELSE IF f.fields["filename"].chars \in TestNames THEN "true"
          ELSE any_test_file(Tail(items))

\* the same over whatever files is: iterating a string gives its characters and
\* iterating a dict its keys, none of which holds 'filename'
has_test(files) ==
  IF files.type = "list" THEN any_test_file(files.items)
  ELSE IF files.type \in {"str", "dict"} THEN "false"
  ELSE "raise"

is_filled_list(v) == ~falsy(v) /\ v.type = "list"

\* FrontendWorker.validate
frontend_validate(result) ==
  IF subscript_raises(result, "artifacts") THEN ValidationError
  ELSE
    LET artifacts == result.fields["artifacts"]
    IN IF artifacts.type # "dict" THEN ValidationError
       ELSE
         LET files == get(artifacts, "files", List(<<>>))
             folder_structure == get(artifacts, "folder_structure", List(<<>>))
             dependencies == get(artifacts, "dependencies", List(<<>>))
         IN IF has_test(files) = "raise" THEN ValidationError
            ELSE Validation(<<Check("files", is_filled_list(files)),
                              Check("folder_structure", is_filled_list(folder_structure)),
                              Check("dependencies", is_filled_list(dependencies)),
                              Check("jest_tests", has_test(files) = "true")>>)

\* not v or not v.strip() raises AttributeError
strip_raises(v) == ~falsy(v) /\ v.type # "str"
is_filled_text(v) == ~falsy(v) /\ ~falsy(strip(v))

\* DatabaseWorker.validate
database_validate(result) ==
  IF subscript_raises(result, "artifacts") THEN ValidationError
  ELSE
    LET artifacts == result.fields["artifacts"]
    IN IF artifacts.type # "dict" THEN ValidationError
       ELSE
         LET schema_ts == get(artifacts, "schema_ts", Str("", NotJson))
             migration_ts == get(artifacts, "migration_ts", Str("", NotJson))
         IN IF strip_raises(schema_ts) \/ strip_raises(migration_ts)
            THEN ValidationError
            ELSE Validation(<<Check("schema_ts", is_filled_text(schema_ts)),
                              Check("migration_ts", is_filled_text(migration_ts))>>)

validate(worker, result) ==
  CASE worker = "ArchitectWorker" -> architect_validate(result)
    [] worker = "DatabaseWorker" -> database_validate(result)
    [] worker = "FrontendWorker" -> frontend_validate(result)

\* ---- one worker agent, built and then validated as the tests do
NoResponse == [type |-> "none"]
NotYet == [type |-> "not_yet"]

\* build results made by hand, as in test_validation_phase and test_error_handling
SampleDesign ==
  Dict([architecture_design |->
          Dict([components |-> List(<<Text, Text>>),
                api_interfaces |-> List(<<Text>>)])])
HandMadeResults ==
  {PyNone, Dict([result |-> PyNone]),
   Dict([result |-> dumps(SampleDesign),
         artifacts |-> Dict([architecture_doc |-> Text])])}

InitWorkerAgent ==
  /\ workflow = "worker_agent"
  /\ NoSession
  /\ task_plan = <<>> /\ completed_tasks = <<>>
  /\ research = NoResearch /\ supersteps = 0
  /\ \E worker \in registered_roles :
        \/ /\ pc = "build"
           /\ \E response \in Responses(worker) :
                 call = [worker |-> worker, response |-> response,
                         build_result |-> NotYet, validation |-> NotYet,
                         returned |-> FALSE]
        \/ /\ pc = "validate"
           /\ \E result \in HandMadeResults :
                 call = [worker |-> worker, response |-> NoResponse,
                         build_result |-> result, validation |-> NotYet,
                         returned |-> FALSE]

Build ==
  /\ pc = "build"
  /\ call' = [call EXCEPT !.build_result = build(call.worker, call.response)]
  /\ pc' = "validate"
  /\ UNCHANGED <<workflow, session, invocations, visited, run_log, context, research, supersteps>>

Validate ==
  /\ pc = "validate"
  /\ call' = [call EXCEPT !.validation = validate(call.worker, call.build_result),
                          !.returned = TRUE]
  /\ pc' = "validated"
  /\ UNCHANGED <<workflow, session, invocations, visited, run_log, context, research, supersteps>>

NextWorkerAgent == Build \/ Validate

SpecWorkerAgent == InitWorkerAgent /\ [][NextWorkerAgent]_vars

\* -------------------------------------------- langgraph_project workflow
\* src/langgraph_project: planner, researcher, tool_executor, writer.
recursion_limit == 8       \* config of main.py:46, which sets 50

\* s[-1]
Last(s) == s[Len(s)]

kb_name == "knowledge_base_search"       \* rag_tool.name
web_name == "tavily_search"              \* search_tool.name

\* the tool calls one answer of the model may hold
ToolCalls == {<<>>, <<kb_name>>, <<web_name>>, <<"unknown_tool">>,
              <<kb_name, web_name>>}

AIMessage(tool_calls) == [type |-> "ai", name |-> "", tool_calls |-> tool_calls]
ToolMessage(name) == [type |-> "tool", name |-> name, tool_calls |-> <<>>]

used(messages, name) == \E i \in 1..Len(messages) : messages[i].name = name

route_after_tool(messages) ==
  IF used(messages, kb_name) /\ used(messages, web_name) THEN "writer"
  ELSE "researcher"

route_after_researcher(messages) ==
  IF Last(messages).tool_calls # <<>> THEN "tool_executor" ELSE "writer"

\* main(): the inputs hold the task only
InitResearch ==
  /\ workflow = "research" /\ pc = "planner"
  /\ NoSession
  /\ task_plan = <<>> /\ completed_tasks = <<>>
  /\ call = NoCall
  /\ research = [task |-> <<"Write", "a", "report">>, plan |-> <<>>,
                 review |-> <<>>, messages |-> <<>>, error |-> "none"]
  /\ supersteps = 0

ResearchFrame ==
  UNCHANGED <<workflow, session, invocations, visited, run_log, call, context>>

\* a node of the graph runs as one more step below the limit
Superstep ==
  /\ workflow = "research"
  /\ supersteps < recursion_limit
  /\ supersteps' = supersteps + 1
  /\ ResearchFrame

\* planner_node: nothing catches a failure of the model
Planner ==
  /\ pc = "planner" /\ Superstep
  /\ \/ /\ research' = [research EXCEPT !.plan = <<"a", "plan">>]
        /\ pc' = "researcher"
     \/ /\ research' = [research EXCEPT !.error = "planner"]
        /\ pc' = "ERROR"

\* researcher_node followed by route_after_researcher: with both tools used it
\* answers by itself; otherwise the model answers with or without tool calls,
\* and a failure of the model becomes an answer without tool calls
Researcher ==
  /\ pc = "researcher" /\ Superstep
  /\ \E tool_calls \in
          IF used(research.messages, kb_name) /\ used(research.messages, web_name)
          THEN {<<>>} ELSE ToolCalls :
        research' = [research EXCEPT !.messages = Append(@, AIMessage(tool_calls))]
  /\ pc' = route_after_researcher(research'.messages)

\* the ToolMessages of tool_node, one for each call and named as the call
RECURSIVE tool_responses(_)
tool_responses(tool_calls) ==
  IF tool_calls = <<>> THEN <<>>
  ELSE <<ToolMessage(Head(tool_calls))>> \o tool_responses(Tail(tool_calls))

\* tool_node followed by route_after_tool; the knowledge base search has no
\* handler of its own, so its failure ends the run
ToolExecutor ==
  /\ pc = "tool_executor" /\ Superstep
  /\ LET tool_calls == Last(research.messages).tool_calls
     IN \/ /\ research' = [research EXCEPT
                             !.messages = @ \o tool_responses(tool_calls)]
           /\ pc' = route_after_tool(research'.messages)
        \/ /\ kb_name \in Range(tool_calls)
           /\ research' = [research EXCEPT !.error = "tool"]
           /\ pc' = "ERROR"

\* writer_node and the edge to END
Writer ==
  /\ pc = "writer" /\ Superstep
  /\ \/ /\ research' = [research EXCEPT !.review = <<"a", "report">>]
        /\ pc' = "END"
     \/ /\ research' = [research EXCEPT !.error = "writer"]
        /\ pc' = "ERROR"

\* the graph stops a run that has used up its steps
RecursionLimit ==
  /\ workflow = "research"
  /\ pc \in {"planner", "researcher", "tool_executor", "writer"}
  /\ supersteps = recursion_limit
  /\ research' = [research EXCEPT !.error = "GraphRecursionError"]
  /\ pc' = "ERROR"
  /\ UNCHANGED supersteps
  /\ ResearchFrame

NextResearch ==
  \/ Planner
  \/ Researcher
  \/ ToolExecutor
  \/ Writer
  \/ RecursionLimit

SpecResearch == InitResearch /\ [][NextResearch]_vars

\* ================================================================ claims

\* a worker step that executes a task
WorkerRuns == pc = "worker" /\ Len(run_log') = Len(run_log) + 1

\* the task that step executes, as it was before the step
Started == Last(run_log')

\* positions of the pending tasks whose dependencies are all in completed_tasks
Ready == {i \in pending_tasks(task_plan) : deps_met(task_plan[i], completed_tasks)}

\* C1: a worker step starts a task only if the task is pending and every id in
\* its dependencies is the id of a task of the current plan that is completed.
C1_StartsOnlyWithCompletedDeps ==
  [][WorkerRuns =>
       /\ Started.status = "pending"
       /\ \A d \in Started.dependencies :
            \E i \in 1..Len(task_plan) :
               task_plan[i].id = d /\ task_plan[i].status = "completed"]_vars

\* C2: among the pending tasks whose dependencies are completed the worker
\* step executes the one with the lowest id, whatever the list order.
C2_LowestIdFirst ==
  [][WorkerRuns => \A i \in Ready : Started.id <= task_plan[i].id]_vars

\* C3: the aggregator is entered only when no task of the plan is pending or
\* in_progress (while one is, the worker is followed by the worker).
C3_AggregateOnlyWhenDone ==
  pc = "aggregator" =>
     \A i \in 1..Len(task_plan) : task_plan[i].status \notin {"pending", "in_progress"}

\* C4: every aggregator step is followed by a tester step.
C4_AggregateThenTester ==
  [][pc = "aggregator" => pc' = "tester"]_vars

\* the reports a state can hold: with each status, and without a status
ReportInputs ==
  {[status |-> "Passed"], [status |-> "Failed"], [status |-> ""], [details |-> ""]}

\* C5: after a tester step the session is at END exactly when the report status
\* is "Passed", and at manager_planning otherwise; the edge out of the tester
\* sends every report that is not "Passed" (Failed, empty, no status) to
\* manager_planning.
C5_TesterRoutesOnPassed ==
  [][pc = "tester" =>
       /\ pc' = "END" <=> validation_report'.status = "Passed"
       /\ pc' # "END" => pc' = "manager_planning"
       /\ \A r \in ReportInputs :
            TesterTarget(r) =
              IF "status" \in DOMAIN r /\ r.status = "Passed"
              THEN "END" ELSE "manager_planning"]_vars

C5_Witness ==
  /\ pc = "END"
  /\ visited # <<>> /\ Last(visited) = "tester"
  /\ validation_report.status = "Passed"

\* C6: a manager step that returns leaves task_plan and completed_tasks as they
\* were and is followed by manager_planning when an interrupt is pending, else
\* by END when clarification is needed, else by the retriever; at that END the
\* manager is the only node that has run.  The retriever is followed by
\* manager_planning, manager_planning by resource_monitor, and that by worker.
C6_ManagerRouting ==
  [][/\ (pc = "manager" /\ pc' # "ERROR") =>
          /\ pc' = IF truthy(user_interrupt') THEN "manager_planning"
                   ELSE IF is_clarification_needed' THEN "END"
                   ELSE "retriever"
          /\ task_plan' = task_plan
          /\ completed_tasks' = completed_tasks
          /\ visited' = <<"manager">>
     /\ pc = "retriever" => pc' = "manager_planning"
     /\ pc = "manager_planning" => pc' = "resource_monitor"
     /\ pc = "resource_monitor" => pc' = "worker"]_vars

C6_Witness ==
  /\ pc = "END"
  /\ visited = <<"manager">>
  /\ is_clarification_needed
  /\ invocations = 2
  /\ task_plan # <<>>

\* a planning step that replans: entered with an interrupt or a Failed report
Replanning ==
  pc = "manager_planning" /\ (truthy(user_interrupt) \/ validation_report.status = "Failed")

\* C7: a replanning step keeps every in_progress or completed task as it is,
\* keeps completed_tasks, and changes the status of an existing task only from
\* pending to cancelled.
C7_ReplanKeepsStartedTasks ==
  [][Replanning =>
       /\ completed_tasks' = completed_tasks
       /\ \A i \in 1..Len(task_plan) :
            /\ task_plan[i].status \in {"in_progress", "completed"} =>
                 \E j \in 1..Len(task_plan') : task_plan'[j] = task_plan[i]
            /\ \A j \in 1..Len(task_plan') :
                 (task_plan'[j].id = task_plan[i].id
                    /\ task_plan'[j].status # task_plan[i].status) =>
                 (task_plan[i].status = "pending" /\ task_plan'[j].status = "cancelled")]_vars

\* C8: a planning step never takes a task id out of task_plan.
C8_PlanningKeepsIds ==
  [][pc = "manager_planning" => Ids(task_plan) \subseteq Ids(task_plan')]_vars

\* C9: no task id is executed twice in a session.
C9_NoTaskRunsTwice ==
  \A i, j \in 1..Len(run_log) : i # j => run_log[i].id # run_log[j].id

\* the worker steps of the current invoke()
WorkerCycles == Cardinality({i \in 1..Len(visited) : visited[i] = "worker"})

\* a pending task of the plan that waits for a cancelled task of the plan
BlockedForGood ==
  \E i, j \in 1..Len(task_plan) :
     /\ task_plan[i].status = "pending"
     /\ task_plan[j].id \in task_plan[i].dependencies
     /\ task_plan[j].status = "cancelled"

has_duplicate_id(tasks) ==
  \E i, j \in 1..Len(tasks) : i # j /\ tasks[i].id = tasks[j].id

has_self_dependency(tasks) ==
  \E i \in 1..Len(tasks) : tasks[i].id \in tasks[i].dependencies

\* the ids a task of the list waits for directly: those of its dependencies
\* that are tasks of the list
WaitsFor(tasks, id) ==
  UNION {tasks[i].dependencies \cap Ids(tasks) : i \in {k \in 1..Len(tasks) : tasks[k].id = id}}

\* the ids reached from the set ids in at most n dependency steps
RECURSIVE Reached(_, _, _)
Reached(tasks, ids, n) ==
  IF n = 0 THEN ids
  ELSE Reached(tasks, ids \cup UNION {WaitsFor(tasks, id) : id \in ids}, n - 1)

has_cycle(tasks) ==
  \E id \in Ids(tasks) :
     id \in Reached(tasks, WaitsFor(tasks, id), Cardinality(Ids(tasks)))

IllFormed(tasks) ==
  has_duplicate_id(tasks) \/ has_self_dependency(tasks) \/ has_cycle(tasks)

RejectsIllFormed ==
  \A tasks \in GeneratedTaskLists : IllFormed(tasks) => ~validate_task_plan(tasks)

\* C12: validate_task_plan refuses every Generator answer with a duplicate id, a
\* task that depends on itself or a dependency cycle, and task_plan never is
\* such a list.
C12_NoDuplicateNoCycle ==
  /\ RejectsIllFormed
  /\ ~IllFormed(task_plan)

\* a planning step of main.py has accepted a two-task answer with a dependency,
\* and the answers it can refuse include one of each kind
C12_Witness ==
  /\ workflow = "main"
  /\ visited # <<>> /\ Last(visited) = "manager_planning"
  /\ Len(task_plan) = 2
  /\ task_plan[2].dependencies # {}
  /\ \E tasks \in RejectedTaskLists : has_duplicate_id(tasks)
  /\ \E tasks \in RejectedTaskLists : has_self_dependency(tasks)
  /\ \E tasks \in RejectedTaskLists :
        has_cycle(tasks) /\ ~has_self_dependency(tasks) /\ ~has_duplicate_id(tasks)

\* C13: every dependency of every task of task_plan is the id of a task of
\* task_plan.
C13_DependenciesExist ==
  \A i \in 1..Len(task_plan) : task_plan[i].dependencies \subseteq Ids(task_plan)

\* ------------------------------------------------------------ deliverable
\* the sorted sequence s with the task t put behind the tasks of no larger id
InsertById(t, s) ==
  LET p == Cardinality({i \in 1..Len(s) : s[i].id <= t.id})
  IN SubSeq(s, 1, p) \o <<t>> \o SubSeq(s, p + 1, Len(s))

RECURSIVE SortedById(_)
SortedById(s) ==
  IF Len(s) = 0 THEN <<>>
  ELSE InsertById(s[Len(s)], SortedById(SubSeq(s, 1, Len(s) - 1)))

\* C14: the component lines an aggregator step writes are the lines of the
\* completed tasks, one each, in ascending order of task id, whatever the order
\* of completed_tasks.
C14_LinesInIdOrder ==
  [][(pc = "aggregator" /\ Len(completed_tasks) > 0) =>
       final_deliverable'[2] = deliverable_parts(SortedById(completed_tasks))]_vars

\* ------------------------------------------------------------------ costs
\* C15: a resource monitor step sets cost_estimate to the unit cost times the
\* number of tasks of task_plan that are not cancelled, and changes neither
\* current_cost nor task_plan nor completed_tasks.
C15_EstimateCountsActiveTasks ==
  [][pc = "resource_monitor" =>
       /\ cost_estimate' = base_cost_per_task *
             Cardinality({i \in 1..Len(task_plan') : task_plan'[i].status # "cancelled"})
       /\ current_cost' = current_cost
       /\ task_plan' = task_plan
       /\ completed_tasks' = completed_tasks]_vars

\* the monitor has just priced a two-task plan with one cancelled task
C15_Witness ==
  /\ visited # <<>> /\ Last(visited) = "resource_monitor"
  /\ Len(task_plan) = 2
  /\ \E i \in 1..2 : task_plan[i].status = "cancelled"
  /\ cost_estimate = base_cost_per_task

\* the worker steps so far that took a task to completed
Completions ==
  Cardinality({i \in 1..Len(run_log) : execute(run_log[i]).status = "completed"})

\* a step that takes a task of the plan into completed
CompletesTask ==
  /\ Len(task_plan') = Len(task_plan)
  /\ \E k \in 1..Len(task_plan) :
        /\ task_plan'[k].id = task_plan[k].id
        /\ task_plan[k].status # "completed"
        /\ task_plan'[k].status = "completed"

\* C16: current_cost always is the unit cost times the number of tasks taken to
\* completed so far; a worker step that completes a task adds exactly the unit
\* cost, every other step (a blocked or idle worker step included) leaves
\* current_cost as it is, and it never decreases.
C16_CostCountsCompletions ==
  /\ [](current_cost = base_cost_per_task * Completions)
  /\ [][current_cost' >= current_cost]_vars
  /\ [][(pc = "worker" /\ CompletesTask) =>
          current_cost' = current_cost + base_cost_per_task]_vars
  /\ [][~(pc = "worker" /\ CompletesTask) => current_cost' = current_cost]_vars

\* a blocked worker step after an earlier completion: the session is at END of
\* its second invoke() with a pending task, one completion and one unit spent
C16_Witness ==
  /\ pc = "END" /\ invocations = 2
  /\ WorkerCycles = 1
  /\ pending_tasks(task_plan) # {}
  /\ Completions = 1
  /\ current_cost = base_cost_per_task

\* -------------------------------------------------------------- interrupt
\* C20: a planning step entered with an interrupt leaves user_interrupt unset,
\* whether the plan generation succeeded or failed.
C20_PlanningClearsInterrupt ==
  [][(pc = "manager_planning" /\ truthy(user_interrupt)) => ~truthy(user_interrupt')]_vars

\* ---------------------------------------------------------- execute_task
\* C17: when execute_task has returned, whatever build, test generation and
\* test execution did, the task is completed or failed, self_validation_status
\* is Passed or Failed, the task is completed exactly when it is Passed, and
\* when the call raised inside, the result starts with "Error".
C17_ExecuteTaskOutcome ==
  call.returned =>
    /\ call.task.status \in {"completed", "failed"}
    /\ call.task.self_validation_status \in {"Passed", "Failed"}
    /\ call.task.status = "completed" <=> call.task.self_validation_status = "Passed"
    /\ raises(call.build, call.tests) => call.task.result[1] = "Error"

\* a call in which build raised has returned
C17_Witness ==
  /\ call.returned
  /\ call.build = "raise"
  /\ call.task.status = "failed"

\* C18: when build returned a result with a populated error field, execute_task
\* returns the task failed with self_validation_status Failed, also when no
\* test case was generated.
C18_BuildErrorFails ==
  (call.returned /\ call.build = "error") =>
     /\ call.task.status = "failed"
     /\ call.task.self_validation_status = "Failed"

\* ------------------------------------------------------------ unknown role
\* the task a worker step has executed, as the step leaves it
Finished ==
  LET k == CHOOSE i \in 1..Len(task_plan) :
             task_plan[i] = Started /\ task_plan'[i] # task_plan[i]
  IN task_plan'[k]

\* C19: a worker step that takes a task whose role has no worker agent leaves
\* the task failed, never completed, with a result that names the role.
C19_UnknownRoleFails ==
  [][(WorkerRuns /\ Started.role \notin registered_roles) =>
       /\ Finished.status = "failed"
       /\ Started.role \in Range(Finished.result)]_vars

\* ------------------------------------------------------- failed planning
\* the planning step of this invoke() failed: it left the empty plan and did
\* not clear the interrupt it was entered with
PlanningFailed ==
  /\ \E i \in 1..Len(visited) : visited[i] = "manager_planning"
  /\ task_plan = <<>>
  /\ truthy(user_interrupt)

\* the nodes a session runs after planning, in order
AfterPlanning == <<"manager_planning", "resource_monitor", "worker", "aggregator", "tester">>

\* C21: an invoke() whose planning step failed has the empty plan and gets to
\* END through resource_monitor, worker, aggregator and tester.
C21_FailedPlanningReachesTester ==
  (pc = "END" /\ PlanningFailed) =>
     /\ Len(visited) >= Len(AfterPlanning)
     /\ SubSeq(visited, Len(visited) - Len(AfterPlanning) + 1, Len(visited)) = AfterPlanning

\* ---------------------------------------------------------- clarification
\* the manager step of a session resumed with the human's answer: the stored
\* state asked for clarification, an answer is in clarified_request and no
\* interrupt is pending
ResumedWithAnswer ==
  /\ pc = "manager" /\ invocations > 1
  /\ is_clarification_needed
  /\ truthy(clarified_request)
  /\ ~truthy(user_interrupt)

\* C22: the manager step of a session resumed with the human's answer, when it
\* returns, goes on to the retriever and keeps clarified_request.
C22_ResumeDoesNotAskAgain ==
  [][(ResumedWithAnswer /\ pc' # "ERROR") =>
       /\ pc' = "retriever"
       /\ clarified_request' = clarified_request]_vars

\* ------------------------------------------------------------ fresh ids
\* C23: task ids are unique within task_plan in every state, and every task a
\* replanning step adds to the plan has an id above every id the plan had.
C23_ReplanUsesFreshIds ==
  /\ [](\A i, j \in 1..Len(task_plan) : i # j => task_plan[i].id # task_plan[j].id)
  /\ [][Replanning =>
          \A j \in 1..Len(task_plan') :
             task_plan'[j] \notin Range(task_plan) =>
               \A i \in 1..Len(task_plan) : task_plan'[j].id > task_plan[i].id]_vars

\* -------------------------------------------------------------- retriever
\* the list the retriever of the running workflow writes
RetrievedList(wf, information, stored_context) ==
  IF wf = "main" THEN information ELSE stored_context

\* C25: a retriever step does not raise and leaves a non-empty retrieved list;
\* in main.py the list is the retriever's items, or exactly one placeholder
\* item, which it is whenever no query is available.
C25_RetrieverLeavesItems ==
  [][pc = "retriever" =>
       /\ pc' = "manager_planning"
       /\ Len(RetrievedList(workflow, retrieved_information', retrieved_context')) >= 1
       /\ workflow = "main" =>
            /\ \/ retrieved_information' = RetrievedItems
               \/ /\ Len(retrieved_information') = 1
                  /\ retrieved_information'[1] \in
                       {NoQueryItem, NoContextItem, RetrievalErrorItem}
            /\ retriever_query = <<>> => retrieved_information' = <<NoQueryItem>>]_vars

\* the retriever of main.py has just stored the placeholder of a failed search
C25_Witness ==
  /\ workflow = "main"
  /\ visited # <<>> /\ Last(visited) = "retriever"
  /\ retrieved_information = <<RetrievalErrorItem>>

\* C26: a retriever step changes no field of the session but the retrieved list
\* of its workflow.
C26_RetrieverFrame ==
  [][pc = "retriever" =>
       /\ UNCHANGED <<user_request, clarified_request, is_clarification_needed,
                      clarification_questions, task_plan, completed_tasks,
                      cost_estimate, current_cost, final_deliverable,
                      validation_report, user_interrupt, manager_analysis>>
       /\ RetrievedList(workflow, retrieved_context', retrieved_information') =
            RetrievedList(workflow, retrieved_context, retrieved_information)]_vars

\* the retriever of main.py has run in a session that already holds a plan, a
\* completed task and costs
C26_Witness ==
  /\ workflow = "main"
  /\ visited # <<>> /\ Last(visited) = "retriever"
  /\ task_plan # <<>> /\ completed_tasks # <<>>
  /\ current_cost > 0 /\ cost_estimate > 0

\* ------------------------------------------------------- empty aggregation
\* C27: an aggregator step entered with no completed task does not raise, sets
\* final_deliverable to the placeholder and changes no other field of the
\* session.
C27_EmptyAggregation ==
  [][(pc = "aggregator" /\ Len(completed_tasks) = 0) =>
       /\ pc' \in {"END", "tester"}
       /\ final_deliverable' = << <<"No", "work", "completed", "yet">> >>
       /\ UNCHANGED <<user_request, clarified_request, is_clarification_needed,
                      clarification_questions, retrieved_context, retrieved_information,
                      task_plan, completed_tasks, validation_report, cost_estimate,
                      current_cost, user_interrupt, manager_analysis>>]_vars

\* the aggregator has run on a session with a plan and no completed task
C27_Witness ==
  /\ visited # <<>> /\ Last(visited) = "aggregator"
  /\ task_plan # <<>>
  /\ Len(completed_tasks) = 0
  /\ final_deliverable = NoWork

\* ------------------------------------------------------------ worker step
\* positions of the plan whose task a step has changed
ChangedTasks == {i \in 1..Len(task_plan) : task_plan'[i] # task_plan[i]}

\* C28: a worker step keeps the length of the plan, changes at most one of its
\* tasks and appends at most one entry to completed_tasks.
C28_OneTaskPerStep ==
  [][pc = "worker" =>
       /\ Len(task_plan') = Len(task_plan)
       /\ Cardinality(ChangedTasks) <= 1
       /\ Len(completed_tasks') <= Len(completed_tasks) + 1
       /\ SubSeq(completed_tasks', 1, Len(completed_tasks)) = completed_tasks]_vars

\* a worker step has executed one task and left another that was ready
C28_Witness ==
  /\ visited # <<>> /\ Last(visited) = "worker"
  /\ Len(run_log) = 1 /\ Len(completed_tasks) = 1
  /\ Ready # {}

\* C29: a worker step entered with pending tasks none of which has all its
\* dependencies in completed_tasks does not raise and changes no field of the
\* session.
C29_BlockedStepChangesNothing ==
  [][(pc = "worker" /\ pending_tasks(task_plan) # {} /\ Ready = {}) =>
       /\ pc' \in {"worker", "aggregator"}
       /\ UNCHANGED session]_vars

\* a worker step has run on a plan with a pending task and nothing ready, in a
\* session in which no task was ever executed
C29_Witness ==
  /\ visited # <<>> /\ Last(visited) = "worker"
  /\ pending_tasks(task_plan) # {} /\ Ready = {}
  /\ Len(run_log) = 0

\* the status changes a task id may make in one step
AllowedMoves ==
  {<<"pending", "in_progress">>, <<"pending", "completed">>, <<"pending", "failed">>,
   <<"pending", "cancelled">>, <<"in_progress", "completed">>, <<"in_progress", "failed">>}

\* C30: from one state to the next the status of a task id stays as it is or
\* makes one of the allowed moves, so a completed, failed or cancelled id never
\* changes again; the worker never executes a cancelled task.
C30_StatusOnlyMovesForward ==
  /\ [][\A i \in 1..Len(task_plan), j \in 1..Len(task_plan') :
           (task_plan'[j].id = task_plan[i].id
              /\ task_plan'[j].status # task_plan[i].status) =>
           <<task_plan[i].status, task_plan'[j].status>> \in AllowedMoves]_vars
  /\ [][WorkerRuns => Started.status # "cancelled"]_vars

\* ------------------------------------------------- completed_tasks, results
\* C31: every entry of completed_tasks is a task of the current task_plan, with
\* status completed and self_validation_status Passed, and no id occurs twice
\* in completed_tasks.
C31_CompletedTasksInPlan ==
  /\ \A i \in 1..Len(completed_tasks) :
        /\ completed_tasks[i] \in Range(task_plan)
        /\ completed_tasks[i].status = "completed"
        /\ completed_tasks[i].self_validation_status = "Passed"
  /\ \A i, j \in 1..Len(completed_tasks) :
        completed_tasks[i].id = completed_tasks[j].id => i = j

\* the tasks a state holds: those of the session and the one of a worker call
HeldTasks ==
  Range(task_plan) \cup Range(completed_tasks)
    \cup (IF "task" \in DOMAIN call THEN {call.task} ELSE {})

\* C32: a task has a result only if its status is completed or failed; pending
\* and cancelled tasks have none.
C32_ResultOnlyWhenExecuted ==
  \A task \in HeldTasks :
     /\ task.result # None => task.status \in {"completed", "failed"}
     /\ task.status \in {"pending", "cancelled"} => task.result = None

\* a plan with a cancelled task and an executed one
C32_Witness ==
  \E i, j \in 1..Len(task_plan) :
     /\ task_plan[i].status = "cancelled" /\ task_plan[i].result = None
     /\ task_plan[j].status = "completed" /\ task_plan[j].result # None

\* C33: in an accepted task list every dependency of a task that is in the
\* list is declared before the task, so the list order is a topological order.
C33_DependenciesDeclaredEarlier ==
  (workflow = "main" /\ pc = "resource_monitor") =>
     \A i, j \in 1..Len(task_plan) :
        task_plan[j].id \in task_plan[i].dependencies => j < i

\* ------------------------------------------- interrupt and planning context
\* C34: a pending interrupt takes priority over the clarification pause: the
\* router answers replan for every value of the clarification flag, and a
\* manager step that leaves an interrupt pending hands over to planning.
C34_InterruptBeforeClarification ==
  /\ \A interrupt \in Interrupts, clarification_needed \in BOOLEAN :
        route_after_manager(interrupt, clarification_needed) = "replan"
  /\ [][(pc = "manager" /\ pc' # "ERROR" /\ truthy(user_interrupt'))
           => pc' = "manager_planning"]_vars

\* the manager asked for clarification while an interrupt was pending
C34_Witness ==
  /\ workflow = "main"
  /\ visited = <<"manager">>
  /\ truthy(user_interrupt)
  /\ is_clarification_needed
  /\ pc = "manager_planning"

\* C35: when the retriever of main.py has stored the items it found, the
\* context the planning step after it reads is that list, joined; it is not
\* the default of the read.
C35_PlanningReadsRetrieved ==
  (/\ workflow = "main" /\ pc = "resource_monitor"
   /\ "retriever" \in Range(visited)
   /\ retrieved_information = RetrievedItems) =>
     /\ context = join(RetrievedList(workflow, retrieved_information, retrieved_context))
     /\ context # join(<<NoAdditionalContext>>)

\* ------------------------------------------------- build and validate
\* the artifact every successful build of the worker holds
artifact_key(worker) ==
  CASE worker = "ArchitectWorker" -> "architecture_doc"
    [] worker = "DatabaseWorker" -> "schema_ts"
    [] worker = "FrontendWorker" -> "files"

Produced(worker, result) ==
  /\ has_key(result, "artifacts")
  /\ has_key(result.fields["artifacts"], artifact_key(worker))

Built == "build_result" \in DOMAIN call /\ call.response # NoResponse
           /\ pc \in {"validate", "validated"}

\* C36: for every Generator outcome build returns a record with result and
\* artifacts, and a record without the worker's artifacts has a populated
\* error field and artifacts.raw_response.
C36_BuildReportsFailure ==
  Built =>
    LET result == call.build_result
    IN /\ has_key(result, "result") /\ has_key(result, "artifacts")
       /\ ~Produced(call.worker, result) =>
            /\ has_key(result, "error") /\ ~falsy(result.fields["error"])
            /\ has_key(result.fields["artifacts"], "raw_response")

\* the field of the build result that validate reads first
read_key(worker) == IF worker = "ArchitectWorker" THEN "result" ELSE "artifacts"

\* a build result validate cannot read: no record, the field missing or None,
\* or for the architect a result text that is no JSON
Unreadable(worker, result) ==
  \/ ~has_key(result, read_key(worker))
  \/ result.fields[read_key(worker)] = PyNone
  \/ /\ worker = "ArchitectWorker"
     /\ result.fields["result"].type = "str"
     /\ result.fields["result"].json = NotJson

CheckNames == {"components", "api_interfaces", "schema_ts", "migration_ts",
               "files", "folder_structure", "dependencies", "jest_tests"}

Validated == "validation" \in DOMAIN call /\ call.returned

\* C37: validate returns Passed or Failed with a list of named checks; it is
\* Passed exactly when checks were made and every one passed; a build result
\* it cannot read gives Failed with an error and no checks.
C37_ValidateReturnsVerdict ==
  Validated =>
    LET verdict == call.validation
    IN /\ verdict.status \in {"Passed", "Failed"}
       /\ \A i \in 1..Len(verdict.checks) :
             /\ verdict.checks[i].criterion \in CheckNames
             /\ verdict.checks[i].status \in {"passed", "failed"}
       /\ verdict.status = "Passed" <=>
             /\ Len(verdict.checks) > 0
             /\ \A i \in 1..Len(verdict.checks) : verdict.checks[i].status = "passed"
       /\ verdict.status = "Failed" => ~falsy(verdict.error)
       /\ Unreadable(call.worker, call.build_result) =>
             /\ verdict.status = "Failed"
             /\ ~falsy(verdict.error)
             /\ Len(verdict.checks) = 0

\* a frontend build out of a Generator answer passed all four checks
C37_Witness ==
  /\ Validated
  /\ call.worker = "FrontendWorker"
  /\ call.response.type = "message"
  /\ call.validation.status = "Passed"
  /\ Len(call.validation.checks) = 4

\* ------------------------------------------------ researcher and tool loop
\* the route after a tool step is writer exactly when both tools have results
RouteAfterToolExact ==
  [][(pc = "tool_executor" /\ pc' # "ERROR") =>
       (pc' = "writer" <=>
          /\ used(research'.messages, kb_name)
          /\ used(research'.messages, web_name))]_vars

\* the model has answered every time with one call of the same tool
SameToolEveryTime(messages) ==
  \E name \in {kb_name, web_name, "unknown_tool"} :
     \A i \in 1..Len(messages) :
        messages[i].type = "ai" => messages[i].tool_calls = <<name>>

\* C38: the researcher-tool loop ends at writer: when the model keeps calling
\* the same tool, the run is not stopped inside the loop by the recursion
\* limit of the graph.
C38_LoopEndsAtWriter ==
  [][~(/\ pc \in {"researcher", "tool_executor"}
       /\ SameToolEveryTime(research.messages)
       /\ pc' = "ERROR"
       /\ research'.error = "GraphRecursionError")]_vars
====
